---- MODULE Spec2Model ----
(***************************************************************************)
(* Model of compiler/rustc_borrowck/src/member_constraints.rs:             *)
(* MemberConstraintSet, an arena of member constraints organised as        *)
(* per-key singly linked lists, with the re-keying operation into_mapped.  *)
(*                                                                         *)
(* Constraint indices are zero-based as in the code (IndexVec); the        *)
(* record with index i is constraints[i + 1] in the model's sequence.      *)
(* Option<T> is modelled as a sequence: None == <<>>, Some(x) == <<x>>.    *)
(***************************************************************************)
EXTENDS Integers, Sequences, FiniteSets, TLC

\* ---------------------------------------------------------------- bounds
MaxConstraints == 3      \* pushes per store lineage
NumRegionVids  == 3      \* member regions / keys (R1 and R2) are 1..NumRegionVids
MaxRemaps      == 2      \* into_mapped calls per store lineage
NumChoiceVids  == 2      \* regions that occur in choice lists
MaxArena       == 2      \* total length of the choice-region arena
NumSpans       == 1      \* distinct definition_span values
NumTys         == 1      \* distinct hidden_ty values
NumOpaqueKeys  == 1      \* distinct OpaqueTypeKey values

RegionVids == 1..NumRegionVids
ChoiceVids == 1..NumChoiceVids
Spans      == 1..NumSpans
Tys        == 1..NumTys
OpaqueKeys == 1..NumOpaqueKeys

\* every choice_regions argument of length <= room
ChoiceLists(room) == UNION { [1..n -> ChoiceVids] : n \in 0..room }

\* ---------------------------------------------------------------- Option
None == <<>>
Some(x) == <<x>>
IsSome(o) == o # <<>>
Unwrap(o) == o[1]

\* ---------------------------------------------------------------- state
VARIABLES
    first_constraints,   \* FxIndexMap<R, index>: sequence of [key, value] in insertion order
    constraints,         \* IndexVec of MemberConstraint records
    choice_regions,      \* Vec<RegionVid>
    pc,                  \* "idle", or the position inside into_mapped / append_list
    first_constraints2,  \* into_mapped: the map under construction
    r2,                  \* into_mapped: map_fn(r1) of the current iteration
    start1,              \* into_mapped: head of the old chain of the current iteration
    source_list,         \* append_list: the list to append (start2)
    p,                   \* append_list: cursor
    pushes,              \* history: the arguments of every add_member_constraint call
    old_first_constraints, \* history: head map on entry of the last into_mapped
    old_constraints,     \* history: constraint arena on entry of the last into_mapped
    old_choice_regions,  \* history: choice arena on entry of the last into_mapped
    map_fn_calls,        \* history: <<r1, r2>> for every map_fn call of the last into_mapped
    followed,            \* history: links followed by each append_list call of the last into_mapped
    lineage,             \* history: how the store came to be (see Lineages)
    remaps,              \* history: number of into_mapped calls so far
    minted               \* history: indices produced by pushes on the current store instance

store    == <<first_constraints, constraints, choice_regions>>
frame    == <<pc, first_constraints2, r2, start1, source_list, p>>
snapshot == <<old_first_constraints, old_constraints, old_choice_regions, map_fn_calls, followed>>
vars     == <<store, frame, pushes, snapshot, lineage, remaps, minted>>

\* "built": only add_member_constraint calls so far
\* "mapped_built": into_mapped running on / just returned from a store that was "built"
\* "mapped_other": into_mapped running on / just returned from any other store
\* "pushed_after": add_member_constraint calls happened after an into_mapped
Lineages == {"built", "mapped_built", "mapped_other", "pushed_after"}

\* ---------------------------------------------------------------- FxIndexMap
\* position of key k in map m, 0 if absent
MapPos(m, k) == IF \E i \in 1..Len(m) : m[i].key = k
                THEN CHOOSE i \in 1..Len(m) : m[i].key = k
                ELSE 0

\* mutant: a key that is absent yields the first entry instead of None
MapGet_FirstWhenAbsent(m, k) ==
    IF MapPos(m, k) # 0 THEN Some(m[MapPos(m, k)].value)
    ELSE IF m = <<>> THEN None ELSE Some(m[1].value)

\* FxIndexMap::get(&k).cloned()
MapGet(m, k) == IF MapPos(m, k) = 0 THEN None ELSE Some(m[MapPos(m, k)].value)

\* mutant: the entry of a key that is inserted again moves to the end
MapInsert_MoveToEnd(m, k, v) ==
    LET pos == MapPos(m, k)
    IN  IF pos = 0
        THEN Append(m, [key |-> k, value |-> v])
        ELSE Append(SubSeq(m, 1, pos - 1) \o SubSeq(m, pos + 1, Len(m)),
                    [key |-> k, value |-> v])

\* mutant: a key that is present keeps its old value (entry().or_insert)
MapInsert_KeepOld(m, k, v) ==
    IF MapPos(m, k) = 0
    THEN Append(m, [key |-> k, value |-> v])
    ELSE m

\* mutant: a new key takes the slot of the first entry instead of a new slot
MapInsert_FirstSlot(m, k, v) ==
    IF MapPos(m, k) # 0 THEN [m EXCEPT ![MapPos(m, k)].value = v]
    ELSE IF m = <<>> THEN <<[key |-> k, value |-> v]>>
    ELSE [m EXCEPT ![1] = [key |-> k, value |-> v]]

\* FxIndexMap::insert(k, v): replaces the value in place, or appends a new entry
MapInsert(m, k, v) ==
    IF MapPos(m, k) = 0
    THEN Append(m, [key |-> k, value |-> v])
    ELSE [m EXCEPT ![MapPos(m, k)].value = v]

MapKeys(m) == { m[i].key : i \in 1..Len(m) }

\* ---------------------------------------------------------------- IndexVec
\* constraints[i] for an index inside the arena
At(cs, i) == cs[i + 1]

InBounds(cs, i) == i \in 0..(Len(cs) - 1)

\* mutant: the new element goes to the front
IndexVecPush_Front(cs, rec) == <<rec>> \o cs

\* IndexVec::push: the new element goes to the end ...
IndexVecPush(cs, rec) == Append(cs, rec)

\* ... and the index returned is the old length
NextIndex(cs) == Len(cs)

\* mutant: a region the arena already holds is not stored again
ExtendArena_Dedup(arena, regions) ==
    arena \o SelectSeq(regions, LAMBDA r : \A i \in 1..Len(arena) : arena[i] # r)

\* mutant: the arena is replaced by the new regions instead of extended
ExtendArena_Replace(arena, regions) == regions

\* Vec::extend on the choice-region arena
ExtendArena(arena, regions) == arena \o regions

\* &arena[start..end]
Slice(arena, start, end) == SubSeq(arena, start + 1, end)

\* mutant: append_list never walks, it writes the link of the head it was given
NextOf_None(cs, i) == None

\* r.next_constraint of the record append_list looks at
NextOf(cs, i) == At(cs, i).next_constraint

\* mutant: add_member_constraint does not link the new record to the old head
PreviousHead_None(heads, member_region_vid) == None

\* self.first_constraints.get(&member_region_vid).cloned() of add_member_constraint
PreviousHead(heads, member_region_vid) == MapGet(heads, member_region_vid)

\* mutant: into_mapped merges with the chain inserted last, whatever its key
Collision_Any(heads2, new_key) ==
    IF heads2 = <<>> THEN None ELSE Some(heads2[Len(heads2)].value)

\* mutant: into_mapped never sees that the new key is already present
Collision_Never(heads2, new_key) == None

\* first_constraints2.get(&r2) of into_mapped
Collision(heads2, new_key) == MapGet(heads2, new_key)

\* ---------------------------------------------------------------- add_member_constraint
AddMemberConstraintStore(key, hidden_ty, definition_span, member_region_vid, regions) ==
    LET next_constraint  == PreviousHead(first_constraints, member_region_vid)
        start_index      == Len(choice_regions)
        end_index        == Len(ExtendArena(choice_regions, regions))
        constraint_index == NextIndex(constraints)
    IN  /\ choice_regions' = ExtendArena(choice_regions, regions)
        /\ constraints' = IndexVecPush(constraints,
              [ next_constraint   |-> next_constraint,
                member_region_vid |-> member_region_vid,
                definition_span   |-> definition_span,
                hidden_ty         |-> hidden_ty,
                key               |-> key,
                start_index       |-> start_index,
                end_index         |-> end_index ])
        /\ first_constraints' =
              MapInsert(first_constraints, member_region_vid, constraint_index)

AddMemberConstraint(key, hidden_ty, definition_span, member_region_vid, regions) ==
    /\ pc = "idle"
    /\ Len(constraints) < MaxConstraints
    /\ AddMemberConstraintStore(key, hidden_ty, definition_span, member_region_vid, regions)
    /\ pushes' = Append(pushes,
          [ key |-> key, hidden_ty |-> hidden_ty, definition_span |-> definition_span,
            member_region_vid |-> member_region_vid, choice_regions |-> regions ])
    /\ lineage' = IF lineage = "built" THEN "built" ELSE "pushed_after"
    /\ old_first_constraints' = <<>>
    /\ old_constraints' = <<>>
    /\ old_choice_regions' = <<>>
    /\ map_fn_calls' = <<>>
    /\ followed' = <<>>
    /\ minted' = minted \cup {NextIndex(constraints)}
    /\ UNCHANGED <<frame, remaps>>

\* ---------------------------------------------------------------- into_mapped
\* destructure self, create the empty new map
IntoMappedBegin ==
    /\ pc = "idle"
    /\ remaps < MaxRemaps
    /\ remaps' = remaps + 1
    /\ pc' = "for"
    /\ first_constraints2' = <<>>
    /\ old_first_constraints' = first_constraints
    /\ old_constraints' = constraints
    /\ old_choice_regions' = choice_regions
    /\ map_fn_calls' = <<>>
    /\ followed' = <<>>
    /\ lineage' = IF lineage = "built" THEN "mapped_built" ELSE "mapped_other"
    /\ UNCHANGED <<store, r2, start1, source_list, p, pushes, minted>>

\* one iteration of `for (r1, start1) in first_constraints` up to the call of
\* append_list; map_fn is an FnMut closure, its result is any key
IntoMappedFor ==
    /\ pc = "for"
    /\ first_constraints # <<>>
    /\ \E new_key \in RegionVids :
          LET r1 == Head(first_constraints).key
              s1 == Head(first_constraints).value
              hit == Collision(first_constraints2, new_key)
          IN  /\ first_constraints' = Tail(first_constraints)
              /\ r2' = new_key
              /\ start1' = s1
              /\ map_fn_calls' = Append(map_fn_calls, <<r1, new_key>>)
              /\ IF IsSome(hit)
                 THEN /\ pc' = "append_list"
                      /\ p' = s1
                      /\ source_list' = Unwrap(hit)
                      /\ followed' = Append(followed, 0)
                 ELSE /\ pc' = "insert"
                      /\ UNCHANGED <<p, source_list, followed>>
    /\ UNCHANGED <<constraints, choice_regions, first_constraints2, pushes,
                   old_first_constraints, old_constraints, old_choice_regions, lineage, remaps, minted>>

\* first_constraints2.insert(r2, start1)
IntoMappedInsert ==
    /\ pc = "insert"
    /\ first_constraints2' = MapInsert(first_constraints2, r2, start1)
    /\ pc' = "for"
    /\ r2' = 0
    /\ start1' = 0
    /\ UNCHANGED <<store, source_list, p, pushes, snapshot, lineage, remaps, minted>>

\* the loop is exhausted: build the returned store
IntoMappedReturn ==
    /\ pc = "for"
    /\ first_constraints = <<>>
    /\ first_constraints' = first_constraints2
    /\ first_constraints2' = <<>>
    /\ pc' = "idle"
    /\ minted' = {}
    /\ UNCHANGED <<constraints, choice_regions, r2, start1, source_list, p,
                   pushes, snapshot, lineage, remaps>>

\* ---------------------------------------------------------------- append_list
\* Some(q) => p = q
AppendListWalk ==
    /\ pc = "append_list"
    /\ InBounds(constraints, p)
    /\ IsSome(NextOf(constraints, p))
    /\ p' = Unwrap(NextOf(constraints, p))
    /\ followed' = [followed EXCEPT ![Len(followed)] = @ + 1]
    /\ UNCHANGED <<store, pc, first_constraints2, r2, start1, source_list, pushes,
                   old_first_constraints, old_constraints, old_choice_regions,
                   map_fn_calls, lineage, remaps, minted>>

\* mutant: the None arm returns without writing the link
AppendListSetNext_NoWrite(cs, tail, source) == cs

\* mutant: the None arm links the tail to itself
AppendListSetNext_Self(cs, tail, source) ==
    [cs EXCEPT ![tail + 1].next_constraint = Some(tail)]

\* the link written by the None arm
AppendListSetNext(cs, tail, source) ==
    [cs EXCEPT ![tail + 1].next_constraint = Some(source)]

\* None => { r.next_constraint = Some(source_list); return }
AppendListLink ==
    /\ pc = "append_list"
    /\ InBounds(constraints, p)
    /\ ~IsSome(NextOf(constraints, p))
    /\ constraints' = AppendListSetNext(constraints, p, source_list)
    /\ pc' = "insert"
    /\ p' = 0
    /\ source_list' = 0
    /\ UNCHANGED <<first_constraints, choice_regions, first_constraints2, r2, start1,
                   pushes, snapshot, lineage, remaps, minted>>

\* ---------------------------------------------------------------- specification
Init ==
    /\ first_constraints = <<>>
    /\ constraints = <<>>
    /\ choice_regions = <<>>
    /\ pc = "idle"
    /\ first_constraints2 = <<>>
    /\ r2 = 0
    /\ start1 = 0
    /\ source_list = 0
    /\ p = 0
    /\ pushes = <<>>
    /\ old_first_constraints = <<>>
    /\ old_constraints = <<>>
    /\ old_choice_regions = <<>>
    /\ map_fn_calls = <<>>
    /\ followed = <<>>
    /\ lineage = "built"
    /\ remaps = 0
    /\ minted = {}

Push ==
    \E key \in OpaqueKeys, hidden_ty \in Tys, definition_span \in Spans,
       member_region_vid \in RegionVids,
       regions \in ChoiceLists(MaxArena - Len(choice_regions)) :
        AddMemberConstraint(key, hidden_ty, definition_span, member_region_vid, regions)

Next ==
    \/ Push
    \/ IntoMappedBegin
    \/ IntoMappedFor
    \/ IntoMappedInsert
    \/ IntoMappedReturn
    \/ AppendListWalk
    \/ AppendListLink

Spec == Init /\ [][Next]_vars

\* ---------------------------------------------------------------- read operations
\* mutant: is_empty looks at the choice-region ranges, not at the records
IsEmpty_NoRegions(cs) == \A i \in 1..Len(cs) : cs[i].start_index = cs[i].end_index

\* is_empty
IsEmpty(cs) == Len(cs) = 0

\* all_indices: the indices of the arena in arena order
AllIndices(cs) == [i \in 1..Len(cs) |-> i - 1]

\* The items the iterator of indices() yields when started at `next`.  The
\* iterator is lazy and stops at None; the model lists at most `fuel` items, so
\* an iteration that does not end shows as a list of `fuel` items.
RECURSIVE Walk(_, _, _)
Walk(cs, next, fuel) ==
    IF ~IsSome(next) \/ fuel = 0
    THEN <<>>
    ELSE LET current == Unwrap(next)
         IN  <<current>> \o Walk(cs, At(cs, current).next_constraint, fuel - 1)

\* indices(member_region_vid), listed up to one item more than the arena holds
Indices(heads, cs, member_region_vid) ==
    Walk(cs, MapGet(heads, member_region_vid), Len(cs) + 1)

\* mutant: an index outside the arena yields an empty default instead of a panic
Index_SilentDefault(cs, i) ==
    IF InBounds(cs, i) THEN [panic |-> FALSE, value |-> <<At(cs, i)>>]
                       ELSE [panic |-> FALSE, value |-> <<>>]

\* Index::index: the record, or the out-of-bounds panic of IndexVec
Index(cs, i) ==
    IF InBounds(cs, i) THEN [panic |-> FALSE, value |-> <<At(cs, i)>>]
                       ELSE [panic |-> TRUE, value |-> <<>>]

\* choice_regions(pci): the slice, or the panic of the indexing / of the slicing
ChoiceRegions(cs, arena, pci) ==
    IF ~InBounds(cs, pci)
    THEN [panic |-> TRUE, value |-> <<>>]
    ELSE LET start_index == At(cs, pci).start_index
             end_index   == At(cs, pci).end_index
         IN  IF start_index > end_index \/ end_index > Len(arena)
             THEN [panic |-> TRUE, value |-> <<>>]
             ELSE [panic |-> FALSE, value |-> Slice(arena, start_index, end_index)]

\* ---------------------------------------------------------------- vocabulary of the claims
Range(f) == { f[i] : i \in DOMAIN f }

\* an operation has completed and none is running
Idle == pc = "idle"

\* the snapshot describes the into_mapped call that is running or has just returned
InMapped == lineage \in {"mapped_built", "mapped_other"}

\* into_mapped has just returned
Returned == Idle /\ InMapped

\* the chain of key k in the store into_mapped consumed
OldIndices(k) == Indices(old_first_constraints, old_constraints, k)

\* the chain of key k in the current store
NewIndices(k) == Indices(first_constraints, constraints, k)

OldKeys == MapKeys(old_first_constraints)

\* the result of the map_fn call made for old key k
MapFnOf(k) ==
    LET i == CHOOSE i \in 1..Len(map_fn_calls) : map_fn_calls[i][1] = k
    IN  map_fn_calls[i][2]

\* the old keys that map_fn sent to k2
Preimage(k2) == { k \in OldKeys : MapFnOf(k) = k2 }

\* the (one-based) number of the first push with member region k
FirstPush(k) ==
    CHOOSE i \in 1..Len(pushes) :
        /\ pushes[i].member_region_vid = k
        /\ \A j \in 1..(i - 1) : pushes[j].member_region_vid # k

\* the old chains of the keys in S, the key pushed last first
RECURSIVE MergedChain(_)
MergedChain(S) ==
    IF S = {} THEN <<>>
    ELSE LET last == CHOOSE k \in S : \A other \in S : FirstPush(other) <= FirstPush(k)
         IN  OldIndices(last) \o MergedChain(S \ {last})

\* the indices pushed with member region k, the most recent first
RECURSIVE PushedWith(_, _)
PushedWith(k, n) ==
    IF n = 0 THEN <<>>
    ELSE IF pushes[n].member_region_vid = k
         THEN <<n - 1>> \o PushedWith(k, n - 1)
         ELSE PushedWith(k, n - 1)

\* ---------------------------------------------------------------- claims
\* C1: after into_mapped of a store built by pushes, the chain of a new key is
\* the old chain of the last-first-pushed old key that maps to it, then the old
\* chain of the one before, ..., then the old chain of the first-pushed one,
\* every old chain in its old order.
C1_MergeOrder ==
    (Returned /\ lineage = "mapped_built") =>
        \A k2 \in RegionVids : NewIndices(k2) = MergedChain(Preimage(k2))

\* a key pushed first, another key, the first key again, merged: [B, A', A]
C1_Witness ==
    /\ Returned /\ lineage = "mapped_built"
    /\ \E k2 \in RegionVids : NewIndices(k2) = <<1, 2, 0>> /\ Cardinality(Preimage(k2)) = 2

\* the chains of all entries of a head map, one after the other
RECURSIVE ChainsOf(_, _)
ChainsOf(heads, cs) ==
    IF heads = <<>> THEN <<>>
    ELSE Walk(cs, Some(Head(heads).value), Len(cs) + 1) \o ChainsOf(Tail(heads), cs)

\* C2: between operations the chains of the head-map entries partition the
\* arena: every index is on the chain of exactly one key, exactly once.
C2_Partition ==
    Idle =>
        LET all == ChainsOf(first_constraints, constraints)
        IN  /\ Len(all) = Len(constraints)
            /\ Range(all) = 0..(Len(constraints) - 1)

\* a store that went through a merge and a later push
C2_Witness ==
    /\ Idle /\ lineage = "pushed_after"
    /\ Len(constraints) = 3
    /\ \E k \in RegionVids : Len(NewIndices(k)) = 3

\* C3: before any remap, indices(k) yields exactly the indices pushed with
\* member region k, the most recent first.
C3_IndicesReverseInsertion ==
    (Idle /\ lineage = "built") =>
        \A k \in RegionVids : NewIndices(k) = PushedWith(k, Len(pushes))

\* one key pushed twice with a push of another key in between
C3_Witness ==
    /\ Idle /\ lineage = "built"
    /\ \E k \in RegionVids : NewIndices(k) = <<2, 0>>

\* the fields of a record that add_member_constraint takes from its arguments
Passengers(rec) ==
    [ key |-> rec.key, hidden_ty |-> rec.hidden_ty, definition_span |-> rec.definition_span,
      member_region_vid |-> rec.member_region_vid ]

\* a record without its link
Unlinked(rec) ==
    [ key |-> rec.key, hidden_ty |-> rec.hidden_ty, definition_span |-> rec.definition_span,
      member_region_vid |-> rec.member_region_vid,
      start_index |-> rec.start_index, end_index |-> rec.end_index ]

\* the indices whose link the running / last into_mapped has rewritten
Rewritten ==
    { i \in 0..(Len(constraints) - 1) :
        At(constraints, i).next_constraint # At(old_constraints, i).next_constraint }

\* map_fn sent no two old keys to one new key
Injective == \A k, l \in OldKeys : MapFnOf(k) = MapFnOf(l) => k = l

\* C4: choice_regions(i) is the list passed to the i-th push, in every store.
C4_ChoiceRegionsRoundTrip ==
    \A i \in 0..(Len(pushes) - 1) :
        ChoiceRegions(constraints, choice_regions, i)
            = [panic |-> FALSE, value |-> pushes[i + 1].choice_regions]

\* a remapped store: an empty list between two pushes of the same region
C4_Witness ==
    /\ Returned
    /\ Len(pushes) = 3
    /\ pushes[1].choice_regions = <<2>>
    /\ pushes[2].choice_regions = <<>>
    /\ pushes[3].choice_regions = <<2>>

\* C5: an injective map_fn leaves every chain and every link as it was.
C5_InjectiveKeepsChains ==
    (Returned /\ Injective) =>
        /\ \A k \in OldKeys : NewIndices(MapFnOf(k)) = OldIndices(k)
        /\ Rewritten = {}

\* two keys renamed by an injective map_fn, one of them with a chain of two
C5_Witness ==
    /\ Returned /\ Injective
    /\ Cardinality(OldKeys) = 2
    /\ \E k \in OldKeys : MapFnOf(k) # k /\ Len(NewIndices(MapFnOf(k))) = 2

\* the walk from head reaches None within as many links as the arena has records
ChainEnds(cs, head) == Len(Walk(cs, Some(head), Len(cs) + 1)) <= Len(cs)

\* the heads of the old map still to be processed, of the new map, and of the
\* chain that the current iteration of into_mapped holds
LiveHeads ==
    { first_constraints[i].value : i \in 1..Len(first_constraints) }
        \cup { first_constraints2[i].value : i \in 1..Len(first_constraints2) }
        \cup (IF pc \in {"append_list", "insert"} THEN {start1} ELSE {})

\* C6: in every state, also inside into_mapped, the chain of every head-map
\* entry (and of the chain being spliced) reaches None within n links.
C6_Acyclic == \A head \in LiveHeads : ChainEnds(constraints, head)

\* inside into_mapped, right after the second splice of a three-way merge
C6_Witness ==
    /\ pc = "insert"
    /\ Cardinality(Rewritten) = 2
    /\ Len(Walk(constraints, Some(start1), Len(constraints) + 1)) = 3

\* C7: the i-th push gets index i and all_indices is 0..n-1 in push order, in
\* every store; every index denotes the record of its push.
C7_DenseIndices ==
    /\ AllIndices(constraints) = [i \in 1..Len(pushes) |-> i - 1]
    /\ \A i \in 1..Len(pushes) :
          /\ InBounds(constraints, i - 1)
          /\ Passengers(At(constraints, i - 1)) = Passengers(pushes[i])
    /\ (Idle /\ ~InMapped /\ pushes # <<>>) =>
          MapGet(first_constraints, pushes[Len(pushes)].member_region_vid)
              = Some(Len(pushes) - 1)

\* three pushes with three member regions, then a remap
C7_Witness ==
    /\ Returned
    /\ Len(pushes) = 3
    /\ Cardinality({ pushes[i].member_region_vid : i \in 1..3 }) = 3

\* C8: into_mapped writes nothing but next_constraint links, only links that
\* were None, and as many as old keys minus new keys.
C8_IntoMappedFrame ==
    InMapped =>
        /\ choice_regions = old_choice_regions
        /\ Len(constraints) = Len(old_constraints)
        /\ \A i \in 0..(Len(constraints) - 1) :
              Unlinked(At(constraints, i)) = Unlinked(At(old_constraints, i))
        /\ \A i \in Rewritten : At(old_constraints, i).next_constraint = None
        /\ Returned =>
              Cardinality(Rewritten) = Len(old_first_constraints) - Len(first_constraints)

\* a merge whose rewritten link is the tail of a chain of two
C8_Witness ==
    /\ Returned
    /\ \E i \in Rewritten :
          \E j \in 0..(Len(constraints) - 1) :
              At(old_constraints, j).next_constraint = Some(i)

Max(S) == CHOOSE x \in S : \A y \in S : y <= x

UniqueKeys(m) == \A i, j \in 1..Len(m) : m[i].key = m[j].key => i = j

\* every head-map entry is the largest index on its chain
HeadIsLargest ==
    \A e \in Range(first_constraints) :
        e.value = Max(Range(Walk(constraints, Some(e.value), Len(constraints) + 1)))

\* the old key of S that the loop of into_mapped processed last
LastProcessed(S) ==
    CHOOSE k \in S : \A other \in S :
        MapPos(old_first_constraints, other) <= MapPos(old_first_constraints, k)

\* C9 as claimed: in every store the head map has one entry per key and the
\* entry is the largest index on the key's chain.
C9_Original == Idle => (UniqueKeys(first_constraints) /\ HeadIsLargest)

\* C9 as amended: one entry per key in every store; the entry is the largest
\* index on the chain in a store built by pushes alone; in a store returned by
\* into_mapped the entry of a new key is the old head of the last-processed old
\* key that maps to it.
C9_HeadMap ==
    Idle =>
        /\ UniqueKeys(first_constraints)
        /\ (lineage = "built" => HeadIsLargest)
        /\ Returned =>
              \A e \in Range(first_constraints) :
                  Some(e.value) = MapGet(old_first_constraints, LastProcessed(Preimage(e.key)))

\* a merged chain whose head is not its largest index
C9_Witness ==
    /\ Returned
    /\ ~HeadIsLargest

\* every value a constraint index can take in the model, the arena's and beyond
Handles == 0..(MaxConstraints + 1)

\* C10 as claimed: an index that no push on this store instance produced
\* panics in choice_regions and in Index.
C10_Original ==
    Idle =>
        \A i \in Handles \ minted :
            /\ Index(constraints, i).panic
            /\ ChoiceRegions(constraints, choice_regions, i).panic

\* C10 as amended: choice_regions and Index panic exactly for the indices at or
\* beyond the constraint count, whichever store produced the index.
C10_PanicIffOutOfBounds ==
    \A i \in Handles :
        /\ Index(constraints, i).panic <=> (i >= Len(constraints))
        /\ ChoiceRegions(constraints, choice_regions, i).panic <=> (i >= Len(constraints))

\* a store returned by into_mapped, on which no push happened, with two records
C10_Witness ==
    /\ Returned
    /\ minted = {}
    /\ Len(constraints) = 2
    /\ ~Index(constraints, 1).panic
    /\ Index(constraints, 2).panic

\* C11: is_empty is true exactly when no push has happened, whatever the
\* choice lists were; into_mapped of an empty store returns a store without
\* constraints, head-map entries and choice regions.
C11_IsEmpty ==
    /\ IsEmpty(constraints) <=> (pushes = <<>>)
    /\ (Returned /\ old_constraints = <<>>) =>
          /\ IsEmpty(constraints)
          /\ first_constraints = <<>>
          /\ choice_regions = <<>>

\* the empty store, remapped
C11_Witness ==
    /\ Returned
    /\ pushes = <<>>
    /\ IsEmpty(constraints)

\* the length of the arena when push number i (one-based) was made
RECURSIVE ArenaBefore(_)
ArenaBefore(i) ==
    IF i <= 1 THEN 0 ELSE ArenaBefore(i - 1) + Len(pushes[i - 1].choice_regions)

\* the arena positions of record i
Positions(i) == (At(constraints, i).start_index + 1)..At(constraints, i).end_index

\* C12: in every state every record has start_index <= end_index <= arena
\* length, the ranges of two records do not overlap, and the range of a record
\* is the one its push gave it.
C12_Ranges ==
    /\ \A i \in 0..(Len(constraints) - 1) :
          /\ At(constraints, i).start_index <= At(constraints, i).end_index
          /\ At(constraints, i).end_index <= Len(choice_regions)
          /\ At(constraints, i).start_index = ArenaBefore(i + 1)
          /\ At(constraints, i).end_index
                = ArenaBefore(i + 1) + Len(pushes[i + 1].choice_regions)
    /\ \A i, j \in 0..(Len(constraints) - 1) :
          i # j => Positions(i) \cap Positions(j) = {}

\* a remapped store with the ranges [0,1), [1,1), [1,2)
C12_Witness ==
    /\ Returned
    /\ Len(constraints) = 3
    /\ At(constraints, 0).end_index = 1
    /\ At(constraints, 1).start_index = 1 /\ At(constraints, 1).end_index = 1
    /\ At(constraints, 2).start_index = 1 /\ At(constraints, 2).end_index = 2

\* C13: a push creates one record whose link is the old head of its key, makes
\* the new index the head of that key, and changes no existing record, no
\* existing element of the arena, and no head or chain of another key.
C13_PushFrame ==
    [][ Len(constraints') # Len(constraints) =>
          LET n == Len(constraints)
              k == constraints'[n + 1].member_region_vid
          IN  /\ Len(constraints') = n + 1
              /\ constraints'[n + 1].next_constraint = MapGet(first_constraints, k)
              /\ MapGet(first_constraints', k) = Some(n)
              /\ SubSeq(constraints', 1, n) = constraints
              /\ SubSeq(choice_regions', 1, Len(choice_regions)) = choice_regions
              /\ \A other \in RegionVids \ {k} :
                    /\ MapGet(first_constraints', other) = MapGet(first_constraints, other)
                    /\ Indices(first_constraints', constraints', other)
                          = Indices(first_constraints, constraints, other)
      ]_vars

\* a push onto the merged chain of a remapped store, next to another key
C13_Witness ==
    /\ Idle /\ lineage = "pushed_after"
    /\ Len(constraints) = 3
    /\ At(constraints, 2).next_constraint = Some(1)
    /\ At(constraints, 1).next_constraint = None
    /\ Len(first_constraints) = 2

\* into_mapped and append_list are sequential code: once into_mapped is called,
\* each of its steps is taken as soon as it is the next one
FairSpec ==
    /\ Spec
    /\ WF_vars(IntoMappedFor)
    /\ WF_vars(IntoMappedInsert)
    /\ WF_vars(IntoMappedReturn)
    /\ WF_vars(AppendListWalk)
    /\ WF_vars(AppendListLink)

\* C14: every into_mapped call returns, every append_list call it makes
\* reaches a record whose link is None and returns, and between operations
\* the iterator of indices(k) ends within n items for every key.
C14_Terminates ==
    /\ (pc # "idle") ~> (pc = "idle")
    /\ (pc = "append_list") ~> (pc = "insert")
    /\ [](Idle => \A k \in RegionVids : Len(NewIndices(k)) <= Len(constraints))

\* append_list has walked the link of a chain of two and stands on its tail
C14_Witness ==
    /\ pc = "append_list"
    /\ followed # <<>>
    /\ followed[Len(followed)] = 1
    /\ NextOf(constraints, p) = None

RECURSIVE Sum(_)
Sum(f) == IF f = <<>> THEN 0 ELSE Head(f) + Sum(Tail(f))

\* the running append_list call has found the record whose link is None
TailFound == pc = "append_list" /\ NextOf(constraints, p) = None

\* the links followed so far by the running append_list call
FollowedNow == followed[Len(followed)]

\* the length of the merged chain that the new key has accumulated so far
Accumulated == Len(Walk(constraints, Some(source_list), Len(constraints) + 1))

\* the old key that the current iteration of into_mapped processes
CurrentOldKey == map_fn_calls[Len(map_fn_calls)][1]

\* C15 as claimed: a splice follows the links of the merged chain accumulated
\* for the new key, so its cost grows with that chain.
C15_Original == TailFound => FollowedNow = Accumulated - 1

\* C15 as amended: a splice follows the links of the old chain of the key being
\* processed, one less than that chain has records, whatever the length of the
\* accumulated chain; all splices of one into_mapped call together follow fewer
\* links than the arena has records.
C15_SpliceCost ==
    /\ TailFound => FollowedNow = Len(OldIndices(CurrentOldKey)) - 1
    /\ InMapped => Sum(followed) + Len(followed) <= Len(constraints)

\* the third of three singleton keys is spliced in front of an accumulated
\* chain of two without following a link
C15_Witness ==
    /\ TailFound
    /\ followed = <<0, 0>>
    /\ Accumulated = 2

\* the member region that record i was pushed with
MemberRegion(i) == At(constraints, i).member_region_vid

\* C16: in a store built by pushes every record on the chain of k was pushed
\* with k; after into_mapped of such a store every record on the chain of k2
\* was pushed with a region that map_fn sends to k2, every record is on the
\* chain of the key its region maps to, and the new keys are the image of the
\* old keys.
C16_ChainKeys ==
    /\ (Idle /\ lineage = "built") =>
          \A k \in RegionVids : \A i \in Range(NewIndices(k)) : MemberRegion(i) = k
    /\ (Returned /\ lineage = "mapped_built") =>
          /\ \A k2 \in RegionVids :
                \A i \in Range(NewIndices(k2)) : MapFnOf(MemberRegion(i)) = k2
          /\ \A i \in 0..(Len(constraints) - 1) :
                i \in Range(NewIndices(MapFnOf(MemberRegion(i))))
          /\ MapKeys(first_constraints) = { MapFnOf(k) : k \in OldKeys }

\* three keys, two of them merged under a key that is none of the old ones'
\* own name, the third renamed
C16_Witness ==
    /\ Returned /\ lineage = "mapped_built"
    /\ Cardinality(OldKeys) = 3
    /\ Cardinality(MapKeys(first_constraints)) = 2
    /\ \E k2 \in RegionVids :
          /\ Len(NewIndices(k2)) = 2
          /\ \A i \in Range(NewIndices(k2)) : MemberRegion(i) # k2

\* C17: indices(k) of a key without head-map entry yields nothing: the miss
\* is the end of the iteration, not a failure.
C17_AbsentKey ==
    Idle =>
        \A k \in RegionVids \ MapKeys(first_constraints) : NewIndices(k) = <<>>

\* a remapped store that holds records, asked for an old key that is not in
\* the image of map_fn
C17_Witness ==
    /\ Returned
    /\ constraints # <<>>
    /\ \E k \in OldKeys : k \notin MapKeys(first_constraints) /\ NewIndices(k) = <<>>

====
